---- MODULE Spec2Model ----
(***************************************************************************)
(* A model of TACSSolidConstitutive (the 3-D solid material law) and of    *)
(* the calls a client makes on one instance of it.  TacsScalar values are  *)
(* modelled by integers; C arrays are sequences read through At(a, i),     *)
(* which keeps the zero-based indices of the source.                       *)
(***************************************************************************)
EXTENDS Integers, Sequences, FiniteSets, TLC

(***************************************************************************)
(* Bounds of the model                                                     *)
(***************************************************************************)
\* thickness values a caller can pass to setDesignVars: 0..MaxT
MaxT == 4
\* dvLen arguments range over -1..MaxDvLen
MaxDvLen == 2
\* temperature rises range over 0..MaxTheta
MaxTheta == 2
\* quantity types range over 0..MaxQuantityType
MaxQuantityType == 1
\* tolerances of the verification harness range over 0..MaxTol
MaxTol == 1
\* derivative values of the element under test range over 0..MaxDeriv
MaxDeriv == 2
\* errors of the analytic derivative of the element under test: 0..MaxDefect
MaxDefect == 2
\* completed test invocations are counted up to MaxRuns
MaxRuns == 2

\* number of stress/strain components of the 3-D solid
NUM_STRESSES == 6
\* number of entries of the symmetric 6x6 tangent (upper triangle)
NUM_TANGENT == 21
\* number of entries of the heat-flux tangent produced by the source
NUM_HEAT_TANGENT == 3
\* number of components of the thermal gradient the evaluator indexes
NUM_GRAD == 3
\* number of flux components written by evalHeatFlux
NUM_FLUX == 2

\* content of a caller's output buffer before the call
Junk == 77

VARIABLES
  properties,  \* the attached property source: 0 is the null pointer
  t,           \* the thickness
  tNum,        \* the design variable number of the thickness
  tlb,         \* lower bound of the thickness
  tub,         \* upper bound of the thickness
  ctor,        \* the arguments the constructor was called with
  op,          \* the member function called last
  dvLen,       \* its dvLen argument
  theta,       \* its theta argument
  nullBufs,    \* the array arguments that were null pointers
  pre,         \* the caller's arrays before the call
  post,        \* the caller's arrays after the call
  ret,         \* the value returned (0 for a void function)
  acc,         \* the array accesses of the call: <<array, index, "r"/"w">>
  quantityType,\* the quantityType argument of a call on a physics model
  scale,       \* the scale argument of a call on a physics model
  fail_rtol,   \* TestElement: relative failure tolerance
  fail_atol,   \* TestElement: absolute failure tolerance
  print_level, \* TestElement: print level
  dh,          \* TestElement: finite-difference step size
  run,         \* TestElement: the test invocation in progress or just ended
  flag,        \* TestElement: the value returned by the last test
  printed,     \* TestElement: diagnostics were printed by some invocation
  runs         \* TestElement: number of completed invocations (capped)

inst == <<properties, t, tNum, tlb, tub>>
\* the state of the verification harness
hvars == <<fail_rtol, fail_atol, print_level, dh, run, flag, printed, runs>>

\* the state of the material law, the physics model and their last call
svars == <<properties, t, tNum, tlb, tub, ctor, op, dvLen, theta,
           nullBufs, pre, post, ret, acc, quantityType, scale>>

vars == <<svars, hvars>>

(***************************************************************************)
(* Arrays                                                                  *)
(***************************************************************************)
BufNames == {"dvNums", "dvs", "lb", "ub", "e", "s", "C", "grad", "flux",
             "dfde", "fdvSens", "quantity", "dfdx"}

NoBufs == [b \in BufNames |-> <<>>]

\* a[i] of the source (zero-based)
At(a, i) == a[i + 1]

\* a[i] = v of the source; a store past the end does not land in the array
Store(a, i, v) == IF i >= 0 /\ i < Len(a) THEN [a EXCEPT ![i + 1] = v] ELSE a

Fill(n, v) == [i \in 1..n |-> v]

Max(a, b) == IF a >= b THEN a ELSE b

\* a caller's array of dvLen entries
DvBuf(len) == Fill(Max(len, 0), Junk)

(***************************************************************************)
(* The property source (TACSMaterialProperties): 0 is the null pointer,    *)
(* 1 a fully anisotropic material, 2 an isotropic one.                     *)
(***************************************************************************)
PropSources == {0, 1, 2}

getDensity(p) == IF p = 1 THEN 2 ELSE 3

getSpecificHeat(p) == IF p = 1 THEN 5 ELSE 1

\* tangent of source 1: all 21 entries differ
AnisotropicTangent ==
  << 1,  2,  3,  4,  5,  6,
         7,  8,  9, 10, 11,
            12, 13, 14, 15,
                16, 17, 18,
                    19, 20,
                        21 >>

\* tangent of source 2
IsotropicTangent ==
  << 4, 1, 1, 0, 0, 0,
        4, 1, 0, 0, 0,
           4, 0, 0, 0,
              2, 0, 0,
                 2, 0,
                    2 >>

evalTangentStiffness3D(p) ==
  IF p = 1 THEN AnisotropicTangent ELSE IsotropicTangent

evalThermalStrain3D(p) ==
  IF p = 1 THEN <<1, 2, 3, 4, 5, 6>> ELSE <<1, 1, 1, 0, 0, 0>>

evalTangentHeatFlux2D(p) ==
  IF p = 1 THEN <<1, 2, 3>> ELSE <<2, 0, 2>>

\* the squared von Mises stress, exact over the integers
vonMisesFailure3D(s) ==
  LET a == At(s, 0) - At(s, 1)
      b == At(s, 1) - At(s, 2)
      c == At(s, 0) - At(s, 2)
  IN  ((a * a + b * b + c * c) \div 2)
      + 3 * (At(s, 3) * At(s, 3) + At(s, 4) * At(s, 4) + At(s, 5) * At(s, 5))

\* the value returned by vonMisesFailure3DStressSens: the same criterion
vonMisesFailure3DStressSensValue(s) == vonMisesFailure3D(s)

\* its derivative with respect to the stress, written to sens
vonMisesFailure3DStressSens(s) ==
  << 2 * At(s, 0) - At(s, 1) - At(s, 2),
     2 * At(s, 1) - At(s, 0) - At(s, 2),
     2 * At(s, 2) - At(s, 0) - At(s, 1),
     6 * At(s, 3), 6 * At(s, 4), 6 * At(s, 5) >>

(***************************************************************************)
(* Inputs of the calls                                                     *)
(***************************************************************************)
DvLens == (0 - 1)..MaxDvLen

TVals == 0..MaxT

Thetas == 0..MaxTheta

UnitStrain(k) == [i \in 1..NUM_STRESSES |-> IF i = k THEN 1 ELSE 0]

PairStrain(j, k) == [i \in 1..NUM_STRESSES |-> IF i = j \/ i = k THEN 1 ELSE 0]

Strains ==
  {Fill(NUM_STRESSES, 0)}
  \cup {UnitStrain(k) : k \in 1..NUM_STRESSES}
  \cup {PairStrain(1, 2), PairStrain(2, 5), PairStrain(3, 6), PairStrain(4, 5)}
  \cup {<<1, 2, 3, 4, 5, 6>>, <<0 - 1, 0, 2, 0, 1, 0>>}

Grads == {<<0, 0, 0>>, <<1, 0, 0>>, <<0, 1, 0>>, <<0, 0, 1>>, <<1, 2, 3>>}

QuantityTypes == 0..MaxQuantityType

Scales == {1, 2}


(***************************************************************************)
(* Recording a call                                                        *)
(***************************************************************************)
Call(o, len, th, nulls, before, after, r, a) ==
  /\ op' = o
  /\ dvLen' = len
  /\ theta' = th
  /\ nullBufs' = nulls
  /\ pre' = before
  /\ post' = after
  /\ ret' = r
  /\ acc' = a
  /\ quantityType' = 0
  /\ scale' = 0
  /\ UNCHANGED hvars

\* a call of a member function of a physics model (TACSElementModel)
ModelCall(o, len, q, sc, nulls, before, after, r, a) ==
  /\ op' = o
  /\ dvLen' = len
  /\ theta' = 0
  /\ nullBufs' = nulls
  /\ pre' = before
  /\ post' = after
  /\ ret' = r
  /\ acc' = a
  /\ quantityType' = q
  /\ scale' = sc
  /\ UNCHANGED hvars

Reads(b, n) == {<<b, i, "r">> : i \in 0..(n - 1)}

Writes(b, n) == {<<b, i, "w">> : i \in 0..(n - 1)}

(***************************************************************************)
(* The design-variable entry points                                        *)
(***************************************************************************)
getNumStressesBody == NUM_STRESSES

\* getDesignVarNums without the test of dvLen
getDesignVarNumsBody_NoLenCheck(len, nulls, bufs) ==
  IF tNum >= 0
  THEN IF "dvNums" \notin nulls
       THEN [ret |-> 1,
             bufs |-> [bufs EXCEPT !["dvNums"] = Store(@, 0, tNum)],
             acc |-> {<<"dvNums", 0, "w">>}]
       ELSE [ret |-> 1, bufs |-> bufs, acc |-> {}]
  ELSE [ret |-> 0, bufs |-> bufs, acc |-> {}]

getDesignVarNumsBody(len, nulls, bufs) ==
  IF tNum >= 0
  THEN IF "dvNums" \notin nulls /\ len >= 1
       THEN [ret |-> 1,
             bufs |-> [bufs EXCEPT !["dvNums"] = Store(@, 0, tNum)],
             acc |-> {<<"dvNums", 0, "w">>}]
       ELSE [ret |-> 1, bufs |-> bufs, acc |-> {}]
  ELSE [ret |-> 0, bufs |-> bufs, acc |-> {}]

\* setDesignVars with dvLen > 1 in place of dvLen >= 1
setDesignVarsBody_OffByOne(len, bufs) ==
  IF tNum >= 0 /\ len > 1
  THEN [t |-> At(bufs["dvs"], 0), acc |-> {<<"dvs", 0, "r">>}]
  ELSE [t |-> t, acc |-> {}]

\* setDesignVars without the test of tNum
setDesignVarsBody_NoOwnerCheck(len, bufs) ==
  IF len >= 1
  THEN [t |-> At(bufs["dvs"], 0), acc |-> {<<"dvs", 0, "r">>}]
  ELSE [t |-> t, acc |-> {}]

setDesignVarsBody(len, bufs) ==
  IF tNum >= 0 /\ len >= 1
  THEN [t |-> At(bufs["dvs"], 0), acc |-> {<<"dvs", 0, "r">>}]
  ELSE [t |-> t, acc |-> {}]

getDesignVarsBody(len, bufs) ==
  IF tNum >= 0 /\ len >= 1
  THEN [bufs |-> [bufs EXCEPT !["dvs"] = Store(@, 0, t)],
        acc |-> {<<"dvs", 0, "w">>}]
  ELSE [bufs |-> bufs, acc |-> {}]

\* getDesignVarRange with bounds widened to contain the stored thickness
getDesignVarRangeBody_Derived(len, nulls, bufs) ==
  LET lo == IF t < tlb THEN t ELSE tlb
      hi == IF t > tub THEN t ELSE tub
  IN  IF tNum >= 0 /\ len >= 1
      THEN [bufs |-> [bufs EXCEPT
                        !["lb"] = IF "lb" \notin nulls THEN Store(@, 0, lo) ELSE @,
                        !["ub"] = IF "ub" \notin nulls THEN Store(@, 0, hi) ELSE @],
            acc |-> (IF "lb" \notin nulls THEN {<<"lb", 0, "w">>} ELSE {})
                    \cup (IF "ub" \notin nulls THEN {<<"ub", 0, "w">>} ELSE {})]
      ELSE [bufs |-> bufs, acc |-> {}]

getDesignVarRangeBody(len, nulls, bufs) ==
  IF tNum >= 0 /\ len >= 1
  THEN [bufs |-> [bufs EXCEPT
                    !["lb"] = IF "lb" \notin nulls THEN Store(@, 0, tlb) ELSE @,
                    !["ub"] = IF "ub" \notin nulls THEN Store(@, 0, tub) ELSE @],
        acc |-> (IF "lb" \notin nulls THEN {<<"lb", 0, "w">>} ELSE {})
                \cup (IF "ub" \notin nulls THEN {<<"ub", 0, "w">>} ELSE {})]
  ELSE [bufs |-> bufs, acc |-> {}]

(***************************************************************************)
(* The evaluation entry points                                             *)
(***************************************************************************)
evalDensityBody == IF properties # 0 THEN t * getDensity(properties) ELSE 0

evalSpecificHeatBody ==
  IF properties # 0 THEN t * getSpecificHeat(properties) ELSE 0

\* evalStress with C[17] in place of C[16] in the row of s[4]
StressRows_WrongEntry(C, e) ==
  << At(C, 0) * At(e, 0) + At(C, 1) * At(e, 1) + At(C, 2) * At(e, 2) + At(C, 3) * At(e, 3) + At(C, 4) * At(e, 4) + At(C, 5) * At(e, 5),
     At(C, 1) * At(e, 0) + At(C, 6) * At(e, 1) + At(C, 7) * At(e, 2) + At(C, 8) * At(e, 3) + At(C, 9) * At(e, 4) + At(C, 10) * At(e, 5),
     At(C, 2) * At(e, 0) + At(C, 7) * At(e, 1) + At(C, 11) * At(e, 2) + At(C, 12) * At(e, 3) + At(C, 13) * At(e, 4) + At(C, 14) * At(e, 5),
     At(C, 3) * At(e, 0) + At(C, 8) * At(e, 1) + At(C, 12) * At(e, 2) + At(C, 15) * At(e, 3) + At(C, 16) * At(e, 4) + At(C, 17) * At(e, 5),
     At(C, 4) * At(e, 0) + At(C, 9) * At(e, 1) + At(C, 13) * At(e, 2) + At(C, 17) * At(e, 3) + At(C, 18) * At(e, 4) + At(C, 19) * At(e, 5),
     At(C, 5) * At(e, 0) + At(C, 10) * At(e, 1) + At(C, 14) * At(e, 2) + At(C, 17) * At(e, 3) + At(C, 19) * At(e, 4) + At(C, 20) * At(e, 5) >>

\* the six rows of evalStress
StressRows(C, e) ==
  << At(C, 0) * At(e, 0) + At(C, 1) * At(e, 1) + At(C, 2) * At(e, 2) + At(C, 3) * At(e, 3) + At(C, 4) * At(e, 4) + At(C, 5) * At(e, 5),
     At(C, 1) * At(e, 0) + At(C, 6) * At(e, 1) + At(C, 7) * At(e, 2) + At(C, 8) * At(e, 3) + At(C, 9) * At(e, 4) + At(C, 10) * At(e, 5),
     At(C, 2) * At(e, 0) + At(C, 7) * At(e, 1) + At(C, 11) * At(e, 2) + At(C, 12) * At(e, 3) + At(C, 13) * At(e, 4) + At(C, 14) * At(e, 5),
     At(C, 3) * At(e, 0) + At(C, 8) * At(e, 1) + At(C, 12) * At(e, 2) + At(C, 15) * At(e, 3) + At(C, 16) * At(e, 4) + At(C, 17) * At(e, 5),
     At(C, 4) * At(e, 0) + At(C, 9) * At(e, 1) + At(C, 13) * At(e, 2) + At(C, 16) * At(e, 3) + At(C, 18) * At(e, 4) + At(C, 19) * At(e, 5),
     At(C, 5) * At(e, 0) + At(C, 10) * At(e, 1) + At(C, 14) * At(e, 2) + At(C, 17) * At(e, 3) + At(C, 19) * At(e, 4) + At(C, 20) * At(e, 5) >>

\* evalStress without the branch for a null property source
evalStressBody_NoFallback(bufs) ==
  IF properties # 0
  THEN LET C == evalTangentStiffness3D(properties)
       IN  [bufs |-> [bufs EXCEPT !["s"] = StressRows(C, bufs["e"])],
            acc |-> Reads("e", NUM_STRESSES) \cup Writes("s", NUM_STRESSES)]
  ELSE [bufs |-> bufs, acc |-> {}]

evalStressBody(bufs) ==
  IF properties # 0
  THEN LET C == evalTangentStiffness3D(properties)
       IN  [bufs |-> [bufs EXCEPT !["s"] = StressRows(C, bufs["e"])],
            acc |-> Reads("e", NUM_STRESSES) \cup Writes("s", NUM_STRESSES)]
  ELSE [bufs |-> [bufs EXCEPT !["s"] = Fill(NUM_STRESSES, 0)],
        acc |-> Writes("s", NUM_STRESSES)]

\* the entries of the tangent that evalTangentStiffness multiplies by t
ScaledEntries == {0, 1, 2, 3, 4, 5}

evalTangentStiffnessBody(bufs) ==
  IF properties # 0
  THEN LET C == evalTangentStiffness3D(properties)
       IN  [bufs |-> [bufs EXCEPT !["C"] =
                        [i \in 1..NUM_TANGENT |->
                           IF (i - 1) \in ScaledEntries THEN C[i] * t ELSE C[i]]],
            acc |-> Writes("C", NUM_TANGENT)
                    \cup {<<"C", i, "r">> : i \in ScaledEntries}]
  ELSE [bufs |-> [bufs EXCEPT !["C"] =
                    [i \in 1..Len(@) |->
                       IF (i - 1) \in ScaledEntries THEN 0 ELSE @[i]]],
        acc |-> {<<"C", i, "w">> : i \in ScaledEntries}]

\* evalThermalStrain without the scaling of e[5]
evalThermalStrainBody_SkipsEntry(th, bufs) ==
  IF properties # 0
  THEN LET e == evalThermalStrain3D(properties)
       IN  [bufs |-> [bufs EXCEPT !["e"] =
                        [i \in 1..NUM_STRESSES |->
                           IF i < NUM_STRESSES THEN e[i] * th ELSE e[i]]],
            acc |-> Writes("e", NUM_STRESSES) \cup Reads("e", NUM_STRESSES)]
  ELSE [bufs |-> [bufs EXCEPT !["e"] = Fill(NUM_STRESSES, 0)],
        acc |-> Writes("e", NUM_STRESSES)]

evalThermalStrainBody(th, bufs) ==
  IF properties # 0
  THEN LET e == evalThermalStrain3D(properties)
       IN  [bufs |-> [bufs EXCEPT !["e"] =
                        [i \in 1..NUM_STRESSES |-> e[i] * th]],
            acc |-> Writes("e", NUM_STRESSES) \cup Reads("e", NUM_STRESSES)]
  ELSE [bufs |-> [bufs EXCEPT !["e"] = Fill(NUM_STRESSES, 0)],
        acc |-> Writes("e", NUM_STRESSES)]

evalHeatFluxBody(bufs) ==
  IF properties # 0
  THEN LET C == evalTangentHeatFlux2D(properties)
           grad == bufs["grad"]
       IN  [bufs |-> [bufs EXCEPT !["flux"] =
                        << At(C, 0) * At(grad, 0) + At(C, 1) * At(grad, 1),
                           At(C, 1) * At(grad, 1) + At(C, 2) * At(grad, 2) >>],
            acc |-> Reads("grad", NUM_GRAD) \cup Writes("flux", NUM_FLUX)]
  ELSE [bufs |-> bufs, acc |-> {}]

\* the tangent is written to a local array that shadows the argument C
evalTangentHeatFluxBody(bufs) ==
  IF properties # 0
  THEN LET C == evalTangentHeatFlux2D(properties)
       IN  [bufs |-> bufs, acc |-> {}]
  ELSE [bufs |-> bufs, acc |-> {}]

\* the six rows of the stress in evalFailure
FailureStressRows(C, e) ==
  << At(C, 0) * At(e, 0) + At(C, 1) * At(e, 1) + At(C, 2) * At(e, 2) + At(C, 3) * At(e, 3) + At(C, 4) * At(e, 4) + At(C, 5) * At(e, 5),
     At(C, 1) * At(e, 0) + At(C, 6) * At(e, 1) + At(C, 7) * At(e, 2) + At(C, 8) * At(e, 3) + At(C, 9) * At(e, 4) + At(C, 10) * At(e, 5),
     At(C, 2) * At(e, 0) + At(C, 7) * At(e, 1) + At(C, 11) * At(e, 2) + At(C, 12) * At(e, 3) + At(C, 13) * At(e, 4) + At(C, 14) * At(e, 5),
     At(C, 3) * At(e, 0) + At(C, 8) * At(e, 1) + At(C, 12) * At(e, 2) + At(C, 15) * At(e, 3) + At(C, 16) * At(e, 4) + At(C, 17) * At(e, 5),
     At(C, 4) * At(e, 0) + At(C, 9) * At(e, 1) + At(C, 13) * At(e, 2) + At(C, 16) * At(e, 3) + At(C, 18) * At(e, 4) + At(C, 19) * At(e, 5),
     At(C, 5) * At(e, 0) + At(C, 10) * At(e, 1) + At(C, 14) * At(e, 2) + At(C, 17) * At(e, 3) + At(C, 19) * At(e, 4) + At(C, 20) * At(e, 5) >>

evalFailureBody(bufs) ==
  IF properties # 0
  THEN LET C == evalTangentStiffness3D(properties)
           s == FailureStressRows(C, bufs["e"])
       IN  [ret |-> vonMisesFailure3D(s), acc |-> Reads("e", NUM_STRESSES)]
  ELSE [ret |-> 0, acc |-> {}]

\* the six rows of the stress in evalFailureStrainSens
SensStressRows(C, e) ==
  << At(C, 0) * At(e, 0) + At(C, 1) * At(e, 1) + At(C, 2) * At(e, 2) + At(C, 3) * At(e, 3) + At(C, 4) * At(e, 4) + At(C, 5) * At(e, 5),
     At(C, 1) * At(e, 0) + At(C, 6) * At(e, 1) + At(C, 7) * At(e, 2) + At(C, 8) * At(e, 3) + At(C, 9) * At(e, 4) + At(C, 10) * At(e, 5),
     At(C, 2) * At(e, 0) + At(C, 7) * At(e, 1) + At(C, 11) * At(e, 2) + At(C, 12) * At(e, 3) + At(C, 13) * At(e, 4) + At(C, 14) * At(e, 5),
     At(C, 3) * At(e, 0) + At(C, 8) * At(e, 1) + At(C, 12) * At(e, 2) + At(C, 15) * At(e, 3) + At(C, 16) * At(e, 4) + At(C, 17) * At(e, 5),
     At(C, 4) * At(e, 0) + At(C, 9) * At(e, 1) + At(C, 13) * At(e, 2) + At(C, 16) * At(e, 3) + At(C, 18) * At(e, 4) + At(C, 19) * At(e, 5),
     At(C, 5) * At(e, 0) + At(C, 10) * At(e, 1) + At(C, 14) * At(e, 2) + At(C, 17) * At(e, 3) + At(C, 19) * At(e, 4) + At(C, 20) * At(e, 5) >>

\* dfde with C[9] in place of C[8] in the row of dfde[3]
SensRows_WrongEntry(C, sens) ==
  << At(C, 0) * At(sens, 0) + At(C, 1) * At(sens, 1) + At(C, 2) * At(sens, 2) + At(C, 3) * At(sens, 3) + At(C, 4) * At(sens, 4) + At(C, 5) * At(sens, 5),
     At(C, 1) * At(sens, 0) + At(C, 6) * At(sens, 1) + At(C, 7) * At(sens, 2) + At(C, 8) * At(sens, 3) + At(C, 9) * At(sens, 4) + At(C, 10) * At(sens, 5),
     At(C, 2) * At(sens, 0) + At(C, 7) * At(sens, 1) + At(C, 11) * At(sens, 2) + At(C, 12) * At(sens, 3) + At(C, 13) * At(sens, 4) + At(C, 14) * At(sens, 5),
     At(C, 3) * At(sens, 0) + At(C, 9) * At(sens, 1) + At(C, 12) * At(sens, 2) + At(C, 15) * At(sens, 3) + At(C, 16) * At(sens, 4) + At(C, 17) * At(sens, 5),
     At(C, 4) * At(sens, 0) + At(C, 9) * At(sens, 1) + At(C, 13) * At(sens, 2) + At(C, 16) * At(sens, 3) + At(C, 18) * At(sens, 4) + At(C, 19) * At(sens, 5),
     At(C, 5) * At(sens, 0) + At(C, 10) * At(sens, 1) + At(C, 14) * At(sens, 2) + At(C, 17) * At(sens, 3) + At(C, 19) * At(sens, 4) + At(C, 20) * At(sens, 5) >>

\* the six rows of dfde in evalFailureStrainSens
SensRows(C, sens) ==
  << At(C, 0) * At(sens, 0) + At(C, 1) * At(sens, 1) + At(C, 2) * At(sens, 2) + At(C, 3) * At(sens, 3) + At(C, 4) * At(sens, 4) + At(C, 5) * At(sens, 5),
     At(C, 1) * At(sens, 0) + At(C, 6) * At(sens, 1) + At(C, 7) * At(sens, 2) + At(C, 8) * At(sens, 3) + At(C, 9) * At(sens, 4) + At(C, 10) * At(sens, 5),
     At(C, 2) * At(sens, 0) + At(C, 7) * At(sens, 1) + At(C, 11) * At(sens, 2) + At(C, 12) * At(sens, 3) + At(C, 13) * At(sens, 4) + At(C, 14) * At(sens, 5),
     At(C, 3) * At(sens, 0) + At(C, 8) * At(sens, 1) + At(C, 12) * At(sens, 2) + At(C, 15) * At(sens, 3) + At(C, 16) * At(sens, 4) + At(C, 17) * At(sens, 5),
     At(C, 4) * At(sens, 0) + At(C, 9) * At(sens, 1) + At(C, 13) * At(sens, 2) + At(C, 16) * At(sens, 3) + At(C, 18) * At(sens, 4) + At(C, 19) * At(sens, 5),
     At(C, 5) * At(sens, 0) + At(C, 10) * At(sens, 1) + At(C, 14) * At(sens, 2) + At(C, 17) * At(sens, 3) + At(C, 19) * At(sens, 4) + At(C, 20) * At(sens, 5) >>

evalFailureStrainSensBody(bufs) ==
  IF properties # 0
  THEN LET C == evalTangentStiffness3D(properties)
           s == SensStressRows(C, bufs["e"])
           sens == vonMisesFailure3DStressSens(s)
           fail == vonMisesFailure3DStressSensValue(s)
       IN  [ret |-> fail,
            bufs |-> [bufs EXCEPT !["dfde"] = SensRows(C, sens)],
            acc |-> Reads("e", NUM_STRESSES) \cup Writes("dfde", NUM_STRESSES)]
  ELSE [ret |-> 0, bufs |-> bufs, acc |-> {}]

(***************************************************************************)
(* The entry points a physics model inherits from TACSElementModel when it *)
(* does not override them                                                  *)
(***************************************************************************)
TACSElementModel_getDesignVarNumsBody(len, nulls, bufs) ==
  [ret |-> 0, bufs |-> bufs, acc |-> {}]

\* addWeakAdjProduct storing its term in place of doing nothing
addWeakAdjProductBody_Overwrites(sc, len, bufs) ==
  IF len >= 1
  THEN [bufs |-> [bufs EXCEPT !["fdvSens"] = Store(@, 0, 0)],
        acc |-> {<<"fdvSens", 0, "w">>}]
  ELSE [bufs |-> bufs, acc |-> {}]

addWeakAdjProductBody(sc, len, bufs) == [bufs |-> bufs, acc |-> {}]

evalPointQuantityBody(q, bufs) == [ret |-> 0, bufs |-> bufs, acc |-> {}]

addPointQuantityDVSensBody(q, sc, len, bufs) == [bufs |-> bufs, acc |-> {}]

(***************************************************************************)
(* The verification harness (TestElement).  One test invocation goes       *)
(* through the phases configure, perturb, compare, report and ends in done. *)
(***************************************************************************)
Tests == {"testResidual", "testJacobian", "testAdjResProduct",
          "testStrainSVSens", "testJacobianXptSens"}

Tols == 0..MaxTol

Steps == {1, 2}

PrintLevels == {0, 1}

Abs(x) == IF x < 0 THEN 0 - x ELSE x

\* the comparison fails when neither the absolute nor the relative
\* tolerance is met
Mismatch(an, fd, rtol, atol) ==
  Abs(an - fd) > atol /\ Abs(an - fd) > rtol * Abs(an)

NoRun == [test |-> "none", phase |-> "idle", analytic |-> 0, fd |-> 0,
          fail |-> FALSE]

\* the harness as constructed: the tightest tolerances, the smallest step,
\* no diagnostics
HarnessInit ==
  /\ fail_rtol = 0
  /\ fail_atol = 0
  /\ print_level = 0
  /\ dh = 1
  /\ run = NoRun
  /\ flag = 0
  /\ printed = FALSE
  /\ runs = 0

Idle == run.phase \in {"idle", "done"}

setFailTolerances ==
  /\ Idle
  /\ \E rtol \in Tols, atol \in Tols :
       fail_rtol' = rtol /\ fail_atol' = atol
  /\ UNCHANGED <<print_level, dh, run, flag, printed, runs, svars>>

setPrintLevel ==
  /\ Idle
  /\ \E f \in PrintLevels : print_level' = f
  /\ UNCHANGED <<fail_rtol, fail_atol, dh, run, flag, printed, runs, svars>>

setStepSize ==
  /\ Idle
  /\ \E h \in Steps : dh' = h
  /\ UNCHANGED <<fail_rtol, fail_atol, print_level, run, flag, printed, runs,
                 svars>>

\* a test is invoked: it takes the configured tolerances, step and level
TestConfigure ==
  /\ Idle
  /\ runs < MaxRuns
  /\ \E test \in Tests :
       run' = [NoRun EXCEPT !.test = test, !.phase = "configure"]
  /\ UNCHANGED <<fail_rtol, fail_atol, print_level, dh, flag, printed, runs,
                 svars>>

\* the analytic value is computed and the perturbed evaluations give the
\* finite difference; the error of the element under test scales with dh
TestPerturb ==
  /\ run.phase = "configure"
  /\ \E an \in 0..MaxDeriv, defect \in 0..MaxDefect :
       run' = [run EXCEPT !.phase = "perturb", !.analytic = an,
                          !.fd = an + defect * dh]
  /\ UNCHANGED <<fail_rtol, fail_atol, print_level, dh, flag, printed, runs,
                 svars>>

\* the comparison of this invocation
TestCompareResult == Mismatch(run.analytic, run.fd, fail_rtol, fail_atol)

TestCompare ==
  /\ run.phase = "perturb"
  /\ run' = [run EXCEPT !.phase = "compare", !.fail = TestCompareResult]
  /\ UNCHANGED <<fail_rtol, fail_atol, print_level, dh, flag, printed, runs,
                 svars>>

\* the offending pair is printed at a sufficient print level
TestReport ==
  /\ run.phase = "compare"
  /\ run' = [run EXCEPT !.phase = "report"]
  /\ printed' = (printed \/ (run.fail /\ print_level > 0))
  /\ UNCHANGED <<fail_rtol, fail_atol, print_level, dh, flag, runs, svars>>

\* a flag that stays set once an earlier invocation has failed
TestFlag_Sticky == IF run.fail \/ flag # 0 THEN 1 ELSE 0

\* the flag returned by the test
TestFlag == IF run.fail THEN 1 ELSE 0

TestReturn ==
  /\ run.phase = "report"
  /\ run' = [run EXCEPT !.phase = "done"]
  /\ flag' = TestFlag
  /\ runs' = runs + 1
  /\ UNCHANGED <<fail_rtol, fail_atol, print_level, dh, printed, svars>>

TestStep == TestPerturb \/ TestCompare \/ TestReport \/ TestReturn

HarnessNext ==
  \/ setFailTolerances
  \/ setPrintLevel
  \/ setStepSize
  \/ TestConfigure
  \/ TestPerturb
  \/ TestCompare
  \/ TestReport
  \/ TestReturn

(***************************************************************************)
(* The state after construction                                            *)
(***************************************************************************)
\* the design variable numbers given to the constructor; negative: none
TNums == {0 - 1, 0, 4}

\* the thicknesses given to the constructor
InitT == {1, 3}

\* the bounds given to the constructor
InitBounds == {<<1, 3>>}

Init ==
  /\ properties \in PropSources
  /\ t \in InitT
  /\ tNum \in TNums
  /\ \E b \in InitBounds : tlb = b[1] /\ tub = b[2]
  /\ ctor = [props |-> properties, t |-> t, tNum |-> tNum,
             tlb |-> tlb, tub |-> tub]
  /\ op = "TACSSolidConstitutive"
  /\ dvLen = 0
  /\ theta = 0
  /\ nullBufs = {}
  /\ pre = NoBufs
  /\ post = NoBufs
  /\ ret = 0
  /\ acc = {}
  /\ quantityType = 0
  /\ scale = 0
  /\ HarnessInit

(***************************************************************************)
(* One action per member function                                          *)
(***************************************************************************)
getNumStresses ==
  /\ Call("getNumStresses", 0, 0, {}, NoBufs, NoBufs, getNumStressesBody, {})
  /\ UNCHANGED <<inst, ctor>>

getDesignVarNums ==
  \E len \in DvLens, isNull \in BOOLEAN :
    LET nulls == IF isNull THEN {"dvNums"} ELSE {}
        before == [NoBufs EXCEPT
                     !["dvNums"] = IF isNull THEN <<>> ELSE DvBuf(len)]
        r == getDesignVarNumsBody(len, nulls, before)
    IN  /\ Call("getDesignVarNums", len, 0, nulls, before, r.bufs, r.ret, r.acc)
        /\ UNCHANGED <<inst, ctor>>

setDesignVars ==
  \E len \in DvLens, v \in TVals :
    LET before == [NoBufs EXCEPT !["dvs"] = Store(DvBuf(len), 0, v)]
        r == setDesignVarsBody(len, before)
    IN  /\ Call("setDesignVars", len, 0, {}, before, before, 0, r.acc)
        /\ t' = r.t
        /\ UNCHANGED <<properties, tNum, tlb, tub, ctor>>

getDesignVars ==
  \E len \in DvLens :
    LET before == [NoBufs EXCEPT !["dvs"] = DvBuf(len)]
        r == getDesignVarsBody(len, before)
    IN  /\ Call("getDesignVars", len, 0, {}, before, r.bufs, 0, r.acc)
        /\ UNCHANGED <<inst, ctor>>

getDesignVarRange ==
  \E len \in DvLens, nulls \in SUBSET {"lb", "ub"} :
    LET before == [NoBufs EXCEPT
                     !["lb"] = IF "lb" \in nulls THEN <<>> ELSE DvBuf(len),
                     !["ub"] = IF "ub" \in nulls THEN <<>> ELSE DvBuf(len)]
        r == getDesignVarRangeBody(len, nulls, before)
    IN  /\ Call("getDesignVarRange", len, 0, nulls, before, r.bufs, 0, r.acc)
        /\ UNCHANGED <<inst, ctor>>

\* evalDensity clearing the thickness when no property source is attached
evalDensity_ClearsThickness ==
  /\ Call("evalDensity", 0, 0, {}, NoBufs, NoBufs, evalDensityBody, {})
  /\ t' = IF properties # 0 THEN t ELSE 0
  /\ UNCHANGED <<properties, tNum, tlb, tub, ctor>>

evalDensity ==
  /\ Call("evalDensity", 0, 0, {}, NoBufs, NoBufs, evalDensityBody, {})
  /\ UNCHANGED <<inst, ctor>>

evalSpecificHeat ==
  /\ Call("evalSpecificHeat", 0, 0, {}, NoBufs, NoBufs, evalSpecificHeatBody, {})
  /\ UNCHANGED <<inst, ctor>>

evalStress ==
  \E e \in Strains :
    LET before == [NoBufs EXCEPT !["e"] = e,
                                 !["s"] = Fill(NUM_STRESSES, Junk)]
        r == evalStressBody(before)
    IN  /\ Call("evalStress", 0, 0, {}, before, r.bufs, 0, r.acc)
        /\ UNCHANGED <<inst, ctor>>

evalTangentStiffness ==
  LET before == [NoBufs EXCEPT !["C"] = Fill(NUM_TANGENT, Junk)]
      r == evalTangentStiffnessBody(before)
  IN  /\ Call("evalTangentStiffness", 0, 0, {}, before, r.bufs, 0, r.acc)
      /\ UNCHANGED <<inst, ctor>>

evalThermalStrain ==
  \E th \in Thetas :
    LET before == [NoBufs EXCEPT !["e"] = Fill(NUM_STRESSES, Junk)]
        r == evalThermalStrainBody(th, before)
    IN  /\ Call("evalThermalStrain", 0, th, {}, before, r.bufs, 0, r.acc)
        /\ UNCHANGED <<inst, ctor>>

evalHeatFlux ==
  \E grad \in Grads :
    LET before == [NoBufs EXCEPT !["grad"] = grad,
                                 !["flux"] = Fill(NUM_FLUX, Junk)]
        r == evalHeatFluxBody(before)
    IN  /\ Call("evalHeatFlux", 0, 0, {}, before, r.bufs, 0, r.acc)
        /\ UNCHANGED <<inst, ctor>>

evalTangentHeatFlux ==
  LET before == [NoBufs EXCEPT !["C"] = Fill(NUM_HEAT_TANGENT, Junk)]
      r == evalTangentHeatFluxBody(before)
  IN  /\ Call("evalTangentHeatFlux", 0, 0, {}, before, r.bufs, 0, r.acc)
      /\ UNCHANGED <<inst, ctor>>

evalFailure ==
  \E e \in Strains :
    LET before == [NoBufs EXCEPT !["e"] = e]
        r == evalFailureBody(before)
    IN  /\ Call("evalFailure", 0, 0, {}, before, before, r.ret, r.acc)
        /\ UNCHANGED <<inst, ctor>>

evalFailureStrainSens ==
  \E e \in Strains :
    LET before == [NoBufs EXCEPT !["e"] = e,
                                 !["dfde"] = Fill(NUM_STRESSES, Junk)]
        r == evalFailureStrainSensBody(before)
    IN  /\ Call("evalFailureStrainSens", 0, 0, {}, before, r.bufs, r.ret, r.acc)
        /\ UNCHANGED <<inst, ctor>>

TACSElementModel_getDesignVarNums ==
  \E len \in DvLens, isNull \in BOOLEAN :
    LET nulls == IF isNull THEN {"dvNums"} ELSE {}
        before == [NoBufs EXCEPT
                     !["dvNums"] = IF isNull THEN <<>> ELSE DvBuf(len)]
        r == TACSElementModel_getDesignVarNumsBody(len, nulls, before)
    IN  /\ ModelCall("TACSElementModel::getDesignVarNums", len, 0, 0, nulls,
                     before, r.bufs, r.ret, r.acc)
        /\ UNCHANGED <<inst, ctor>>

addWeakAdjProduct ==
  \E len \in DvLens, sc \in Scales :
    LET before == [NoBufs EXCEPT !["fdvSens"] = DvBuf(len)]
        r == addWeakAdjProductBody(sc, len, before)
    IN  /\ ModelCall("addWeakAdjProduct", len, 0, sc, {}, before, r.bufs, 0,
                     r.acc)
        /\ UNCHANGED <<inst, ctor>>

evalPointQuantity ==
  \E q \in QuantityTypes :
    LET before == [NoBufs EXCEPT !["quantity"] = Fill(NUM_GRAD, Junk)]
        r == evalPointQuantityBody(q, before)
    IN  /\ ModelCall("evalPointQuantity", 0, q, 0, {}, before, r.bufs, r.ret,
                     r.acc)
        /\ UNCHANGED <<inst, ctor>>

addPointQuantityDVSens ==
  \E q \in QuantityTypes, len \in DvLens, sc \in Scales :
    LET before == [NoBufs EXCEPT !["dfdx"] = DvBuf(len)]
        r == addPointQuantityDVSensBody(q, sc, len, before)
    IN  /\ ModelCall("addPointQuantityDVSens", len, q, sc, {}, before, r.bufs,
                     0, r.acc)
        /\ UNCHANGED <<inst, ctor>>

Next ==
  \/ getNumStresses
  \/ getDesignVarNums
  \/ setDesignVars
  \/ getDesignVars
  \/ getDesignVarRange
  \/ evalDensity
  \/ evalSpecificHeat
  \/ evalStress
  \/ evalTangentStiffness
  \/ evalThermalStrain
  \/ evalHeatFlux
  \/ evalTangentHeatFlux
  \/ evalFailure
  \/ evalFailureStrainSens
  \/ TACSElementModel_getDesignVarNums
  \/ addWeakAdjProduct
  \/ evalPointQuantity
  \/ addPointQuantityDVSens

Spec == Init /\ [][Next]_vars

\* the harness around an element whose material law has no property source;
\* a test that has been invoked runs to completion
HarnessStart == Init /\ properties = 0 /\ t = 1 /\ tNum < 0

HarnessSpec == HarnessStart /\ [][HarnessNext]_vars /\ WF_vars(TestStep)

(***************************************************************************)
(* Definitions used to state the properties                                *)
(***************************************************************************)
\* position in the 21-entry array of entry (i, j), i <= j, of the upper
\* triangle of a symmetric 6x6 matrix stored row by row
UpperIndex(i, j) == i * NUM_STRESSES - ((i * (i - 1)) \div 2) + (j - i)

\* entry (i, j) of the symmetric matrix K with K[i][j] = K[j][i]
K(C, i, j) == IF i <= j THEN At(C, UpperIndex(i, j)) ELSE At(C, UpperIndex(j, i))

RECURSIVE RowSum(_, _, _, _)
RowSum(C, i, v, j) ==
  IF j < 0 THEN 0 ELSE K(C, i, j) * At(v, j) + RowSum(C, i, v, j - 1)

\* the symmetric matrix applied to a vector
VoigtApply(C, v) ==
  [i \in 1..NUM_STRESSES |-> RowSum(C, i - 1, v, NUM_STRESSES - 1)]

VecAdd(a, b) == [i \in 1..Len(a) |-> a[i] + b[i]]

Zeros(n) == [i \in 1..n |-> 0]

\* the arrays of a call of evalStress(e, s) and the stress it returns in the
\* current state
StressArgs(e) == [NoBufs EXCEPT !["e"] = e, !["s"] = Fill(NUM_STRESSES, Junk)]

StressNow(e) == evalStressBody(StressArgs(e)).bufs["s"]

\* the tangent evalTangentStiffness returns in the current state
TangentNow ==
  evalTangentStiffnessBody(
    [NoBufs EXCEPT !["C"] = Fill(NUM_TANGENT, Junk)]).bufs["C"]

OwnedCount(n) == IF n >= 0 THEN 1 ELSE 0

DvOps == {"getDesignVarNums", "setDesignVars", "getDesignVars",
          "getDesignVarRange"}

\* C1: consistency law: with a property source attached, the tangent
\* returned by evalTangentStiffness, applied as a symmetric 6x6 matrix in
\* Voigt ordering to any strain e, is exactly the stress evalStress(e)
\* returns.
C1_Consistency ==
  (op = "evalTangentStiffness" /\ properties # 0)
    => \A e \in Strains : VoigtApply(post["C"], e) = StressNow(e)

\* C2: round trip: for an instance owning a design variable, getDesignVars
\* with dvLen >= 1 called right after setDesignVars(dvLen >= 1, v) with v
\* in [tlb, tub] writes exactly v into dvs[0].
C2_RoundTrip ==
  [][(/\ op = "setDesignVars" /\ tNum >= 0 /\ dvLen >= 1
      /\ At(pre["dvs"], 0) >= tlb /\ At(pre["dvs"], 0) <= tub
      /\ op' = "getDesignVars" /\ dvLen' >= 1)
     => At(post'["dvs"], 0) = At(pre["dvs"], 0)]_vars

\* a getDesignVars call returned a thickness that only setDesignVars can
\* have stored
C2_Witness ==
  /\ op = "getDesignVars" /\ tNum >= 0 /\ dvLen >= 1
  /\ At(post["dvs"], 0) = 2 /\ tlb <= 2 /\ 2 <= tub

\* C3: degraded mode: with no property source, evalStress writes zero to
\* all six stress entries and evalDensity and evalSpecificHeat return 0.
C3_DegradedMode ==
  properties = 0 =>
    /\ op = "evalStress" => post["s"] = Zeros(NUM_STRESSES)
    /\ op = "evalDensity" => ret = 0
    /\ op = "evalSpecificHeat" => ret = 0

C3_Witness ==
  /\ properties = 0 /\ op = "evalStress"
  /\ pre["e"] = UnitStrain(1)
  /\ pre["s"] = Fill(NUM_STRESSES, Junk)
  /\ post["s"] = Zeros(NUM_STRESSES)
  /\ t # 0

\* C4: size query: getDesignVarNums returns the number of owned design
\* variables whatever dvLen and dvNums are, writes dvNums only when it is
\* non-null and dvLen >= 1, and touches nothing for dvLen = 0 and a null
\* array; setDesignVars, getDesignVars and getDesignVarRange access no array
\* entry when dvLen < 1; every access is inside a non-null array.
C4_SizeQuery ==
  /\ op = "getDesignVarNums" =>
       /\ ret = OwnedCount(tNum)
       /\ acc # {} => ("dvNums" \notin nullBufs /\ dvLen >= 1)
       /\ post # pre => ("dvNums" \notin nullBufs /\ dvLen >= 1)
       /\ (dvLen = 0 /\ "dvNums" \in nullBufs) => (acc = {} /\ post = pre)
  /\ (op \in {"setDesignVars", "getDesignVars", "getDesignVarRange"}
      /\ dvLen < 1) => (acc = {} /\ post = pre)
  /\ op \in DvOps =>
       \A a \in acc : a[1] \notin nullBufs /\ a[2] < Len(pre[a[1]])

C4_Witness ==
  /\ op = "getDesignVarNums" /\ dvLen = 0 /\ "dvNums" \in nullBufs
  /\ tNum >= 0 /\ ret = 1 /\ acc = {}

\* C5: an instance that owns no design variable (tNum < 0) is not changed
\* by setDesignVars, and getDesignVars, getDesignVarRange and
\* getDesignVarNums leave the caller's arrays unchanged, the last one
\* returning 0, for every dvLen and input.
C5_NoDesignVar ==
  [][tNum < 0 =>
       /\ op' = "setDesignVars" => t' = t
       /\ op' \in {"getDesignVars", "getDesignVarRange", "getDesignVarNums"}
            => (post' = pre' /\ acc' = {})
       /\ op' = "getDesignVarNums" => ret' = 0]_vars

C5_Witness ==
  /\ tNum < 0 /\ op = "setDesignVars" /\ dvLen >= 1
  /\ At(pre["dvs"], 0) # t

\* C6: the design variable number and the bounds stay those given to the
\* constructor, and getDesignVarNums and getDesignVarRange report them,
\* whatever thickness setDesignVars has stored.
C6_IdentityFixed ==
  /\ tNum = ctor.tNum /\ tlb = ctor.tlb /\ tub = ctor.tub
  /\ op = "getDesignVarNums" =>
       /\ ret = OwnedCount(ctor.tNum)
       /\ <<"dvNums", 0, "w">> \in acc => At(post["dvNums"], 0) = ctor.tNum
       /\ ("dvNums" \notin nullBufs /\ dvLen >= 1 /\ ctor.tNum >= 0)
            => <<"dvNums", 0, "w">> \in acc
  /\ (op = "getDesignVarRange" /\ dvLen >= 1 /\ ctor.tNum >= 0) =>
       /\ "lb" \notin nullBufs => At(post["lb"], 0) = ctor.tlb
       /\ "ub" \notin nullBufs => At(post["ub"], 0) = ctor.tub

\* the range is reported while the stored thickness is outside it
C6_Witness ==
  /\ op = "getDesignVarRange" /\ dvLen >= 1 /\ nullBufs = {}
  /\ t < tlb
  /\ At(post["lb"], 0) = ctor.tlb /\ At(post["ub"], 0) = ctor.tub

\* a strain with six different entries and the arrays of a call with it
ProbeStrain == <<1, 2, 3, 4, 5, 6>>

ProbeArgs == StressArgs(ProbeStrain)

\* C7: every member function other than setDesignVars leaves t, tNum, tlb,
\* tub and the property source unchanged, and so leaves unchanged what the
\* evaluations return for the same arguments (density, specific heat,
\* tangent, stress of the probe strain, thermal strain of every temperature
\* rise).
C7_OnlySetMutates ==
  [][op' # "setDesignVars" =>
       /\ inst' = inst
       /\ evalDensityBody' = evalDensityBody
       /\ evalSpecificHeatBody' = evalSpecificHeatBody
       /\ TangentNow' = TangentNow
       /\ evalStressBody(ProbeArgs)' = evalStressBody(ProbeArgs)
       /\ \A th \in Thetas :
            evalThermalStrainBody(th, ProbeArgs)'
              = evalThermalStrainBody(th, ProbeArgs)]_vars

\* an evaluation made after setDesignVars has changed the thickness
C7_Witness ==
  /\ op = "evalTangentStiffness" /\ properties # 0
  /\ t \notin InitT
  /\ At(post["C"], 0) = t * At(evalTangentStiffness3D(properties), 0)

\* C8: for a fixed strain and property source, changing t through
\* setDesignVars scales every entry of the stress returned by evalStress
\* proportionally to t.
C8_StressScalesWithT ==
  [][(op' = "setDesignVars" /\ properties # 0) =>
       \A e \in Strains : \A i \in 1..NUM_STRESSES :
         StressNow(e)'[i] * t = StressNow(e)[i] * t']_vars

\* the entries of the tangent the stress of evalStress depends on
UsedByEvalStress ==
  {i \in 0..(NUM_TANGENT - 1) :
     \E e \in Strains :
       StressRows(Zeros(NUM_TANGENT), e)
         # StressRows([Zeros(NUM_TANGENT) EXCEPT ![i + 1] = 1], e)}

\* C9: evalTangentStiffness returns the tangent of the property source with
\* every entry evalStress uses multiplied by t, and the entries it does not
\* scale equal to the values of the property source.
C9_TangentScaled ==
  (op = "evalTangentStiffness" /\ properties # 0) =>
    \A i \in 0..(NUM_TANGENT - 1) :
      /\ i \in UsedByEvalStress
           => At(post["C"], i) = t * At(evalTangentStiffness3D(properties), i)
      /\ i \notin ScaledEntries
           => At(post["C"], i) = At(evalTangentStiffness3D(properties), i)

\* C10: with a property source attached, evalStress returns the symmetric
\* 6x6 matrix K built from the 21-entry tangent of the source applied to the
\* strain, s[i] = sum over j of K[i][j]*e[j]; it is additive in the strain
\* and maps the zero strain to the zero stress.
C10_FullSymmetricStress ==
  (op = "evalStress" /\ properties # 0) =>
    /\ post["s"] = VoigtApply(evalTangentStiffness3D(properties), pre["e"])
    /\ \A a, b \in Strains :
         VecAdd(a, b) = pre["e"]
           => post["s"] = VecAdd(StressNow(a), StressNow(b))
    /\ pre["e"] = Zeros(NUM_STRESSES) => post["s"] = Zeros(NUM_STRESSES)

C10_Witness ==
  /\ op = "evalStress" /\ properties = 1
  /\ pre["e"] = <<0, 1, 0, 0, 1, 0>>
  /\ post["s"] = <<2 + 5, 7 + 10, 8 + 14, 9 + 17, 10 + 19, 11 + 20>>

\* the evaluators with an array result and the array each one writes
ArrayResult ==
  [evalTangentStiffness |-> "C", evalThermalStrain |-> "e",
   evalHeatFlux |-> "flux", evalTangentHeatFlux |-> "C",
   evalFailureStrainSens |-> "dfde"]

\* C11: configuration absence: with no property source attached, each of
\* evalTangentStiffness, evalThermalStrain, evalHeatFlux,
\* evalTangentHeatFlux, evalFailure and evalFailureStrainSens either sets
\* its whole output array to zero or leaves its whole output array
\* untouched, never a mix, and the scalar results are 0.
C11_AbsenceDefined ==
  properties = 0 =>
    /\ op \in DOMAIN ArrayResult =>
         \/ post[ArrayResult[op]] = Zeros(Len(pre[ArrayResult[op]]))
         \/ post[ArrayResult[op]] = pre[ArrayResult[op]]
    /\ op \in {"evalFailure", "evalFailureStrainSens"} => ret = 0

\* the arrays of a call of evalFailure(e)
FailureArgs(e) == [NoBufs EXCEPT !["e"] = e]

\* C12: with a property source attached, evalFailureStrainSens returns the
\* failure value evalFailure returns for the same strain, and dfde is the
\* stress sensitivity of the failure criterion mapped through the same
\* symmetric stiffness: dfde[i] = sum over j of K[i][j]*sens[j], with sens
\* taken at the stress K*e.
C12_FailureSens ==
  (op = "evalFailureStrainSens" /\ properties # 0) =>
    LET C == evalTangentStiffness3D(properties)
        s == VoigtApply(C, pre["e"])
    IN  /\ ret = evalFailureBody(FailureArgs(pre["e"])).ret
        /\ ret = vonMisesFailure3D(s)
        /\ post["dfde"] = VoigtApply(C, vonMisesFailure3DStressSens(s))

C12_Witness ==
  /\ op = "evalFailureStrainSens" /\ properties = 1
  /\ pre["e"] = UnitStrain(4)
  /\ pre["dfde"] = Fill(NUM_STRESSES, Junk)
  /\ ret = evalFailureBody(FailureArgs(UnitStrain(4))).ret
  /\ ret > 0
  /\ \A i \in 1..NUM_STRESSES : post["dfde"][i] # Junk

\* the arrays of a call of evalThermalStrain(theta, e) and the strain it
\* returns in the current state
ThermalArgs == [NoBufs EXCEPT !["e"] = Fill(NUM_STRESSES, Junk)]

ThermalNow(th) == evalThermalStrainBody(th, ThermalArgs).bufs["e"]

\* C13: with a property source attached, every entry of the strain returned
\* by evalThermalStrain is theta times the thermal-strain entry of the
\* property source; so the result for theta1 + theta2 is the sum of the
\* results for theta1 and theta2, and the result for theta = 0 is zero.
C13_ThermalLinear ==
  (op = "evalThermalStrain" /\ properties # 0) =>
    /\ post["e"] = [i \in 1..NUM_STRESSES |->
                      theta * evalThermalStrain3D(properties)[i]]
    /\ \A th1, th2 \in Thetas :
         th1 + th2 = theta
           => post["e"] = VecAdd(ThermalNow(th1), ThermalNow(th2))
    /\ theta = 0 => post["e"] = Zeros(NUM_STRESSES)

C13_Witness ==
  /\ op = "evalThermalStrain" /\ properties = 1 /\ theta = 2
  /\ pre["e"] = Fill(NUM_STRESSES, Junk)
  /\ post["e"] = <<2, 4, 6, 8, 10, 12>>
  /\ post["e"] = VecAdd(ThermalNow(1), ThermalNow(1))

ModelOps == {"TACSElementModel::getDesignVarNums", "addWeakAdjProduct",
             "evalPointQuantity", "addPointQuantityDVSens"}

\* C14: a physics model that does not override the optional entry points:
\* evalPointQuantity returns length 0 for every quantity type and writes
\* nothing to quantity, getDesignVarNums returns 0, and addWeakAdjProduct
\* and addPointQuantityDVSens leave the caller's accumulator (fdvSens, dfdx)
\* unchanged; none of them accesses any array.
C14_ModelDefaults ==
  op \in ModelOps =>
    /\ post = pre
    /\ acc = {}
    /\ op = "evalPointQuantity" => ret = 0
    /\ op = "TACSElementModel::getDesignVarNums" => ret = 0

\* an accumulator holding earlier contributions went through addWeakAdjProduct
C14_Witness ==
  /\ op = "addWeakAdjProduct" /\ dvLen >= 1 /\ scale = 2
  /\ pre["fdvSens"] = Fill(dvLen, Junk)
  /\ post["fdvSens"] = Fill(dvLen, Junk)

\* the order of the phases of a test invocation
PhaseOrder ==
  {<<"idle", "configure">>, <<"configure", "perturb">>,
   <<"perturb", "compare">>, <<"compare", "report">>, <<"report", "done">>,
   <<"done", "configure">>}

Running == {"configure", "perturb", "compare", "report"}

\* C15: every test invocation of the verification harness goes through
\* configure, perturb, compare, report in that order and then reaches the
\* terminal state, where it returns a flag; the flag is 1 exactly when the
\* values compared in this invocation mismatch under the configured
\* tolerances, whatever earlier invocations returned (an invocation starts
\* from a fresh run, keeping only tolerances, step size and print level).
C15_HarnessLifecycle ==
  /\ [][/\ run.phase' # run.phase => <<run.phase, run.phase'>> \in PhaseOrder
        /\ (run.phase' = "configure" /\ run.phase # "configure") =>
             /\ run' = [NoRun EXCEPT !.test = run.test', !.phase = "configure"]
             /\ run.test' \in Tests
             /\ <<fail_rtol', fail_atol', print_level', dh'>>
                  = <<fail_rtol, fail_atol, print_level, dh>>
        /\ (run.phase' = "done" /\ run.phase # "done") =>
             flag' = IF Mismatch(run.analytic', run.fd', fail_rtol', fail_atol')
                     THEN 1 ELSE 0]_vars
  /\ \A test \in Tests :
       (run.test = test /\ run.phase \in Running)
         ~> (run.test = test /\ run.phase = "done")

\* a second invocation passed after an earlier one failed and printed
C15_Witness ==
  /\ run.phase = "done" /\ runs = 2 /\ flag = 0 /\ printed
  /\ run.test = "testJacobian"

\* C16: with a property source attached, evalHeatFlux applies the symmetric
\* 2x2 conductivity tensor of evalTangentHeatFlux2D to the two-component
\* gradient, flux[0] = C[0]*grad[0] + C[1]*grad[1] and
\* flux[1] = C[1]*grad[0] + C[2]*grad[1], and reads only grad[0] and grad[1].
C16_HeatFlux ==
  (op = "evalHeatFlux" /\ properties # 0) =>
    LET C    == evalTangentHeatFlux2D(properties)
        grad == pre["grad"]
    IN  /\ post["flux"] =
             <<At(C, 0) * At(grad, 0) + At(C, 1) * At(grad, 1),
               At(C, 1) * At(grad, 0) + At(C, 2) * At(grad, 1)>>
        /\ \A a \in acc : (a[1] = "grad" /\ a[3] = "r") => a[2] \in {0, 1}

\* C17: with a property source attached, evalTangentHeatFlux leaves in the
\* caller's array C the entries produced by evalTangentHeatFlux2D, the ones
\* evalHeatFlux uses.
C17_HeatTangentDelivered ==
  (op = "evalTangentHeatFlux" /\ properties # 0) =>
    post["C"] = evalTangentHeatFlux2D(properties)

====
